---- MODULE Spec2Model ----
(***************************************************************************)
(* Model of the stale-issue auditor (adk-stale-agent): the issue-history   *)
(* reconstruction (buildHistoryTimeline), the replay                        *)
(* (replayHistoryToFindState), the evaluator tool (getIssueState) with the  *)
(* maintainer cache (getCachedMaintainers) and the GraphQL fetch            *)
(* (fetchGraphqlData), and the alert tool (alertMaintainerOfEdit).          *)
(*                                                                         *)
(* Strings are sequences of tokens, so that endsWith and includes are       *)
(* computed.  A null string is the reserved value Null, a null object is    *)
(* NullNode, a null Date is NullDate.  An ISO timestamp string is the       *)
(* record [iso |-> t]; a Date is the integer t (one unit = one day).        *)
(***************************************************************************)
EXTENDS Integers, Sequences, FiniteSets, TLC

\* ------------------------------------------------------------------ bounds
MaxTime == 2
MaxNodes == 2
MaxClock == 2
MaxPosted == 3
MaxIssues == 3
MaxPages == 2

\* --------------------------------------------------------------- constants
Null == <<"<null>">>
NullNode == [null |-> TRUE]
NullDate == 0 - 1
EmptyString == <<>>

BOT_ALERT_SIGNATURE == <<"**Notification:** The author has updated the issue description">>
BOT_NAME == <<"adk-bot">>
BOT_SUFFIX == <<"[bot]">>
STALE_LABEL_NAME == <<"stale">>
STALE_HOURS_THRESHOLD == 168
CLOSE_HOURS_AFTER_STALE_THRESHOLD == 168
UNKNOWN_AUTHOR == <<"unknown">>
\* alertMaintainerOfEdit: `${BOT_ALERT_SIGNATURE}. Maintainers, please review.`
AlertComment == BOT_ALERT_SIGNATURE \o <<". Maintainers, please review.">>
\* the fetch limits come from the environment (defaults 30, 10 and 20)
GRAPHQL_COMMENT_LIMIT == 2
GRAPHQL_EDIT_LIMIT == 2
GRAPHQL_TIMELINE_LIMIT == 2
GRAPHQL_LABEL_FIRST == 20

\* ----------------------------------------------------------- string helpers
\* s.endsWith(suffix)
EndsWith(s, suffix) ==
    /\ Len(s) >= Len(suffix)
    /\ SubSeq(s, Len(s) - Len(suffix) + 1, Len(s)) = suffix

\* s.includes(pattern)
Includes(s, pattern) ==
    \E i \in 0..(Len(s) - Len(pattern)) : SubSeq(s, i + 1, i + Len(pattern)) = pattern

\* array.includes(x)
ArrayIncludes(arr, x) == \E i \in 1..Len(arr) : arr[i] = x

\* JavaScript truthiness of a string | null
Truthy(s) == s # Null /\ s # EmptyString

\* parseISO(isoString): the instant the string denotes
parseISO(s) == s.iso

\* x?.login ?? null
LoginOrNull(x) == IF x = NullNode THEN Null ELSE x.login

\* IsHumanActor that knows the bot's own name only
IsHumanActor_OwnNameOnly(actor) == Truthy(actor) /\ actor # BOT_NAME

\* actor && !actor.endsWith('[bot]') && actor !== BOT_NAME
IsHumanActor(actor) == Truthy(actor) /\ ~EndsWith(actor, BOT_SUFFIX) /\ actor # BOT_NAME

\* ------------------------------------------------- replayHistoryToFindState
\* RoleOf with the two tests in the other order
RoleOf_MaintainerFirst(actor, maintainers, issueAuthor) ==
    IF Truthy(actor) /\ ArrayIncludes(maintainers, actor) THEN "maintainer"
    ELSE IF actor = issueAuthor THEN "author"
    ELSE "other_user"

\* Determine role (of one event's actor)
RoleOf(actor, maintainers, issueAuthor) ==
    IF actor = issueAuthor THEN "author"
    ELSE IF Truthy(actor) /\ ArrayIncludes(maintainers, actor) THEN "maintainer"
    ELSE "other_user"

\* CommentTextOf with event.data || null: an empty body counts as no text
CommentTextOf_EmptyIsNull(event) ==
    IF event.type = "commented" /\ event.data # EmptyString THEN event.data ELSE Null

\* Only store text if it's a comment
CommentTextOf(event) ==
    IF event.type = "commented" THEN event.data ELSE Null

\* The state before the loop
ReplayInit(history, issueAuthor) ==
    [last_action_role |-> "author",
     last_activity_time |-> IF Len(history) > 0 THEN history[1].time ELSE 0,
     last_action_type |-> "created",
     last_comment_text |-> Null,
     last_actor_name |-> issueAuthor]

\* ReplayStep that keeps the previous actor when the event has none
ReplayStep_KeepsActor(st, event, maintainers, issueAuthor) ==
    [last_action_role |-> RoleOf(event.actor, maintainers, issueAuthor),
     last_activity_time |-> event.time,
     last_action_type |-> event.type,
     last_comment_text |-> CommentTextOf(event),
     last_actor_name |-> IF event.actor = Null THEN st.last_actor_name ELSE event.actor]

\* One iteration of the loop over the history
ReplayStep(st, event, maintainers, issueAuthor) ==
    [last_action_role |-> RoleOf(event.actor, maintainers, issueAuthor),
     last_activity_time |-> event.time,
     last_action_type |-> event.type,
     last_comment_text |-> CommentTextOf(event),
     last_actor_name |-> event.actor]

RECURSIVE ReplayFrom(_, _, _, _, _)
ReplayFrom(st, history, i, maintainers, issueAuthor) ==
    IF i > Len(history) THEN st
    ELSE ReplayFrom(ReplayStep(st, history[i], maintainers, issueAuthor),
                    history, i + 1, maintainers, issueAuthor)

replayHistoryToFindState(history, maintainers, issueAuthor) ==
    ReplayFrom(ReplayInit(history, issueAuthor), history, 1, maintainers, issueAuthor)

\* ----------------------------------------------------- buildHistoryTimeline
\* 1. Baseline: Issue creation
CreatedEvent(data) ==
    [type |-> "created",
     actor |-> LoginOrNull(data.author),
     time |-> parseISO(data.createdAt),
     data |-> Null]

\* TrackBotAlert that keeps the alert comment seen last, not the newest
TrackBotAlert_SeenLast(lastBotAlertTime, cTime) == cTime

\* Track bot alerts for spam prevention: the newest alert comment so far
TrackBotAlert(lastBotAlertTime, cTime) ==
    IF lastBotAlertTime = NullDate \/ cTime > lastBotAlertTime
    THEN cTime
    ELSE lastBotAlertTime

\* CommentTime that ignores the edit of a comment
CommentTime_Created(c) == parseISO(c.createdAt)

\* The time of a 'commented' event
CommentTime(c) ==
    IF c.lastEditedAt # NullNode THEN parseISO(c.lastEditedAt) ELSE parseISO(c.createdAt)

\* 2. Process comments: one iteration
CommentStep(acc, c) ==
    IF c = NullNode THEN acc
    ELSE LET actor == LoginOrNull(c.author)
             cBody == IF c.body = Null THEN EmptyString ELSE c.body
             cTime == parseISO(c.createdAt)
         IN  IF Includes(cBody, BOT_ALERT_SIGNATURE)
             THEN [acc EXCEPT !.lastBotAlertTime = TrackBotAlert(@, cTime)]
             ELSE IF IsHumanActor(actor)
                  THEN [acc EXCEPT !.history =
                           Append(@, [type |-> "commented", actor |-> actor,
                                      time |-> CommentTime(c), data |-> cBody])]
                  ELSE acc

\* 3. Process userContentEdits: one iteration
EditStep(acc, e) ==
    IF e = NullNode THEN acc
    ELSE LET actor == LoginOrNull(e.editor)
         IN  IF IsHumanActor(actor)
             THEN [acc EXCEPT !.history =
                      Append(@, [type |-> "edited_description", actor |-> actor,
                                 time |-> parseISO(e.editedAt), data |-> Null])]
             ELSE acc

\* TimelineStep without the continue after a label application
TimelineStep_LabelIsEvent(acc, t) ==
    IF t = NullNode THEN acc
    ELSE LET actor == LoginOrNull(t.actor)
             timeVal == parseISO(t.createdAt)
             labelled == IF t.typename = "LabeledEvent" /\ t.label # NullNode
                            /\ t.label.name = STALE_LABEL_NAME
                         THEN [acc EXCEPT !.labelEvents = Append(@, timeVal)]
                         ELSE acc
         IN  IF IsHumanActor(actor)
             THEN [labelled EXCEPT !.history =
                      Append(@, [type |-> IF t.typename = "RenamedTitleEvent"
                                          THEN "renamed_title" ELSE "reopened",
                                 actor |-> actor, time |-> timeVal, data |-> Null])]
             ELSE labelled

\* 4. Process timeline items: one iteration
TimelineStep(acc, t) ==
    IF t = NullNode THEN acc
    ELSE LET etype == t.typename
             actor == LoginOrNull(t.actor)
             timeVal == parseISO(t.createdAt)
         IN  IF etype = "LabeledEvent"
             THEN IF t.label # NullNode /\ t.label.name = STALE_LABEL_NAME
                  THEN [acc EXCEPT !.labelEvents = Append(@, timeVal)]
                  ELSE acc
             ELSE IF IsHumanActor(actor)
                  THEN [acc EXCEPT !.history =
                           Append(@, [type |-> IF etype = "RenamedTitleEvent"
                                               THEN "renamed_title" ELSE "reopened",
                                      actor |-> actor, time |-> timeVal, data |-> Null])]
                  ELSE acc

RECURSIVE ProcessComments(_, _, _)
ProcessComments(acc, nodes, i) ==
    IF i > Len(nodes) THEN acc ELSE ProcessComments(CommentStep(acc, nodes[i]), nodes, i + 1)

RECURSIVE ProcessEdits(_, _, _)
ProcessEdits(acc, nodes, i) ==
    IF i > Len(nodes) THEN acc ELSE ProcessEdits(EditStep(acc, nodes[i]), nodes, i + 1)

RECURSIVE ProcessTimeline(_, _, _)
ProcessTimeline(acc, nodes, i) ==
    IF i > Len(nodes) THEN acc ELSE ProcessTimeline(TimelineStep(acc, nodes[i]), nodes, i + 1)

\* InsertByTime of a sort that puts an element before the elements of its own time
InsertByTime_BeforeEqual(sorted, e) ==
    LET k == Cardinality({j \in 1..Len(sorted) : sorted[j].time < e.time})
    IN  SubSeq(sorted, 1, k) \o <<e>> \o SubSeq(sorted, k + 1, Len(sorted))

\* Array.prototype.sort with (a, b) => a.time - b.time is stable: an element goes
\* after every element whose time is not greater than its own.
InsertByTime(sorted, e) ==
    LET k == Cardinality({j \in 1..Len(sorted) : sorted[j].time <= e.time})
    IN  SubSeq(sorted, 1, k) \o <<e>> \o SubSeq(sorted, k + 1, Len(sorted))

RECURSIVE SortFrom(_, _, _)
SortFrom(sorted, h, i) ==
    IF i > Len(h) THEN sorted ELSE SortFrom(InsertByTime(sorted, h[i]), h, i + 1)

\* SortByTime that leaves the events in ingestion order
SortByTime_Unsorted(h) == h

\* Sort chronologically
SortByTime(h) == SortFrom(<<>>, h, 1)

buildHistoryTimeline(data) ==
    LET acc0 == [history |-> <<CreatedEvent(data)>>,
                 labelEvents |-> <<>>,
                 lastBotAlertTime |-> NullDate]
        acc1 == ProcessComments(acc0, data.comments, 1)
        acc2 == ProcessEdits(acc1, data.userContentEdits, 1)
        acc3 == ProcessTimeline(acc2, data.timelineItems, 1)
    IN  [acc3 EXCEPT !.history = SortByTime(@)]

\* ------------------------------------------------------------ getIssueState
errorResponse(errorMessage) == [status |-> "error", message |-> errorMessage]

\* new RequestException(`GraphQL Error: ${response.errors[0].message}`)
GraphQLError(response) == <<"GraphQL Error: ">> \o response.errors[1].message

\* new RequestException(`Issue #${item_number} not found.`)
NotFoundError == <<"Issue #", "item_number", " not found.">>

\* new Error('Maintainer verification failed. Processing aborted.')
MaintainerError == <<"Maintainer verification failed. Processing aborted.">>

\* what the HTTP client throws when a request fails
TransportError == <<"AxiosError">>

\* rawData.author?.login ?? 'unknown'
IssueAuthorOf(rawData) ==
    IF rawData.author = NullNode THEN UNKNOWN_AUTHOR ELSE rawData.author.login

\* rawData.labels?.nodes.map((l) => l.name) || []
LabelsListOf(rawData) == [i \in 1..Len(rawData.labels) |-> rawData.labels[i].name]

\* MaxOf that takes the application fetched last
MaxOf_FetchedLast(times) == times[Len(times)]

\* Math.max(...labelEvents.map((d) => d.getTime()))
MaxOf(times) == CHOOSE m \in {times[i] : i \in 1..Len(times)} :
                    \A i \in 1..Len(times) : times[i] <= m

\* currentTime.diff(DateTime.fromJSDate(t), 'days').days
DaysSince(currentTime, t) == currentTime - t

\* Stale label logic
IsStale(labelsList) == ArrayIncludes(labelsList, STALE_LABEL_NAME)

DaysSinceStaleLabel(isStale, labelEvents, currentTime) ==
    IF isStale /\ Len(labelEvents) > 0
    THEN DaysSince(currentTime, MaxOf(labelEvents))
    ELSE 0

\* MaintainerAlertNeeded suppressed by an alert at the very time of the edit
MaintainerAlertNeeded_AtOrAfter(st, lastBotAlertTime) ==
    IF /\ st.last_action_role \in {"author", "other_user"}
       /\ st.last_action_type = "edited_description"
    THEN ~(lastBotAlertTime # NullDate /\ lastBotAlertTime >= st.last_activity_time)
    ELSE FALSE

\* MaintainerAlertNeeded that does not look at the role
MaintainerAlertNeeded_AnyRole(st, lastBotAlertTime) ==
    IF st.last_action_type = "edited_description"
    THEN ~(lastBotAlertTime # NullDate /\ lastBotAlertTime > st.last_activity_time)
    ELSE FALSE

\* Silent edit alert logic
MaintainerAlertNeeded(st, lastBotAlertTime) ==
    IF /\ st.last_action_role \in {"author", "other_user"}
       /\ st.last_action_type = "edited_description"
    THEN ~(lastBotAlertTime # NullDate /\ lastBotAlertTime > st.last_activity_time)
    ELSE FALSE

\* Return comprehensive state
Verdict(st, maintainerAlertNeeded, isStale, daysSinceActivity, daysSinceStaleLabel, labelsList, maintainersList, author) ==
    [status |-> "success",
     last_action_role |-> st.last_action_role,
     last_action_type |-> st.last_action_type,
     last_actor_name |-> st.last_actor_name,
     maintainer_alert_needed |-> maintainerAlertNeeded,
     is_stale |-> isStale,
     days_since_activity |-> daysSinceActivity,
     days_since_stale_label |-> daysSinceStaleLabel,
     last_comment_text |-> st.last_comment_text,
     current_labels |-> labelsList,
     stale_threshold_days |-> STALE_HOURS_THRESHOLD \div 24,
     close_threshold_days |-> CLOSE_HOURS_AFTER_STALE_THRESHOLD \div 24,
     maintainers |-> maintainersList,
     issue_author |-> author]

\* CatchBlock that rethrows what is no RequestException
CatchBlock_Rethrows(e) ==
    IF e.name = "RequestException"
    THEN errorResponse(<<"Network Error: ">> \o e.message)
    ELSE [status |-> "thrown", error |-> e]

\* catch (e): a RequestException is a network error, anything else an analysis error
CatchBlock(e) ==
    IF e.name = "RequestException"
    THEN errorResponse(<<"Network Error: ">> \o e.message)
    ELSE errorResponse(<<"Analysis Error: ">> \o e.message)

\* ------------------------------------------------------------------- inputs
Times == 1..MaxTime
IsoTimes == {[iso |-> t] : t \in Times}
\* the times of an edit of a comment: up to the time of the evaluation
LaterIsoTimes == {[iso |-> t] : t \in 1..(MaxTime + 1)}
Humans == {<<"alice">>, <<"bob">>}
Bots == {BOT_NAME, <<"github-actions", "[bot]">>}
Users == {NullNode} \cup {[login |-> a] : a \in Humans \cup Bots}
OTHER_LABEL == <<"bug">>

\* comments of every kind of user, never edited; a human's comments, edited, with
\* and without a body; alert comments, posted by the bot or quoted by a human
CommentNodes ==
    {NullNode}
    \cup [author : Users, body : {<<"Any update?">>}, createdAt : IsoTimes,
          lastEditedAt : {NullNode}]
    \cup {c \in [author : {[login |-> <<"alice">>]}, body : {Null, <<"Any update?">>},
                 createdAt : IsoTimes, lastEditedAt : LaterIsoTimes] :
             c.lastEditedAt.iso >= c.createdAt.iso}
    \cup [author : {[login |-> BOT_NAME], [login |-> <<"bob">>]}, body : {AlertComment},
          createdAt : IsoTimes, lastEditedAt : {NullNode, [iso |-> MaxTime]}]

EditNodes == {NullNode} \cup [editor : Users, editedAt : IsoTimes]

TimelineNodes ==
    {NullNode}
    \cup [typename : {"LabeledEvent"}, createdAt : IsoTimes,
          actor : {[login |-> BOT_NAME], [login |-> <<"bob">>]},
          label : {NullNode, [name |-> STALE_LABEL_NAME], [name |-> OTHER_LABEL]}]
    \cup [typename : {"RenamedTitleEvent"}, createdAt : IsoTimes, actor : Users]
    \cup [typename : {"ReopenedEvent"}, createdAt : IsoTimes,
          actor : {[login |-> <<"alice">>]}]

\* how many nodes each of the three feeds of a response holds
FeedLengths == {l \in (0..MaxNodes) \X (0..MaxNodes) \X (0..MaxNodes) :
                   l[1] + l[2] + l[3] <= MaxNodes}

LabelLists == {<<[name |-> OTHER_LABEL]>>,
               <<[name |-> OTHER_LABEL], [name |-> STALE_LABEL_NAME]>>}

IssueAuthors == {NullNode, [login |-> <<"alice">>]}

\* the collaborators with push permission, as the listing returns them
CollaboratorLists == {<<>>, <<[login |-> <<"bob">>]>>,
                      <<[login |-> <<"alice">>], [login |-> <<"bob">>]>>}

NowValues == {MaxTime + 1}

NullArray == <<Null>>
NoError == [name |-> "none", message |-> <<>>]

\* -------------------------------------------------------------------- state
VARIABLES
    github,             \* the issue as GitHub holds it: every comment and edit
    clock,              \* the wall clock
    quiet,              \* history: the silent edit alerted about, while no human acted
    maintainersCache,   \* let maintainersCache: string[] | null
    pc,                 \* where getIssueState stands
    maintainers,        \* getIssueState: const maintainers
    response,           \* fetchGraphqlData: const response
    rawData,            \* getIssueState: const rawData
    currentTime,        \* getIssueState: const currentTime
    timeline,           \* getIssueState: [history, labelEvents, lastBotAlertTime]
    state,              \* getIssueState: const state
    caught,             \* getIssueState: the exception its catch block received
    result,             \* what getIssueState returned
    main,               \* main: where it stands, allIssues, i, chunk, processedCount
    tasks,              \* processSingleIssue, one call per issue number
    collaboratorRequests,   \* history: the collaborators requests issued so far
    usedMaintainers,    \* history: the maintainer lists evaluations have used
    search              \* getOldOpenIssueNumbers: where it stands, page, issueNumbers

vars == <<github, clock, quiet, maintainersCache, pc, maintainers, response, rawData,
          currentTime, timeline, state, caught, result, main, tasks,
          collaboratorRequests, usedMaintainers, search>>

\* the state of the batch driver
driverVars == <<main, tasks, collaboratorRequests, usedMaintainers>>

\* the state of one getIssueState call and of the issue it reads
issueVars == <<github, clock, quiet, pc, maintainers, response, rawData, currentTime,
               timeline, state, caught, result>>

NoTimeline == [history |-> <<>>, labelEvents |-> <<>>, lastBotAlertTime |-> NullDate]
NotQuiet == [phase |-> "none", edit |-> NullDate]

\* the issue numbers a run can list
IssueNumbers == 1..MaxIssues

\* the values CONCURRENCY_LIMIT is configured with
ConcurrencyLimits == {1, 2}

\* main before its first await
NotStarted ==
    [pc |-> "start", CONCURRENCY_LIMIT |-> 1, allIssues |-> <<>>, i |-> 0, chunk |-> <<>>,
     processedCount |-> 0, slept |-> 0]

\* processSingleIssue not called
NoTask ==
    [pc |-> "idle", started |-> 0, turn |-> 0, fetched |-> FALSE, maintainers |-> NullArray,
     verdict |-> "none", tool |-> "none", sent |-> <<>>, posted |-> {},
     toolResult |-> NullNode, failure |-> "none"]

\* getOldOpenIssueNumbers not called
NoSearch ==
    [pc |-> "idle", daysOld |-> NullNode, page |-> 1, issueNumbers |-> <<>>,
     asked |-> <<>>, received |-> <<>>]

\* the issue as it was opened
NewIssue ==
    [author |-> [login |-> <<"alice">>], createdAt |-> [iso |-> 1],
     labels |-> <<>>, comments |-> <<>>, userContentEdits |-> <<>>,
     timelineItems |-> <<>>]

Init ==
    /\ github = NewIssue
    /\ clock = 1
    /\ quiet = NotQuiet
    /\ maintainersCache = NullArray
    /\ pc = "idle"
    /\ maintainers = NullArray
    /\ response = NullNode
    /\ rawData = NullNode
    /\ currentTime = 0
    /\ timeline = NoTimeline
    /\ state = NullNode
    /\ caught = NoError
    /\ result = NullNode
    /\ main = NotStarted
    /\ tasks = [n \in IssueNumbers |-> NoTask]
    /\ collaboratorRequests = 0
    /\ usedMaintainers = {}
    /\ search = NoSearch

\* CacheHit for which an empty list counts as no cache
CacheHit_EmptyIsMiss(cache) == cache # NullArray /\ Len(cache) > 0

\* if (maintainersCache): an array is truthy, also the empty one
CacheHit(cache) == cache # NullArray

\* getIssueState is called: getCachedMaintainers answers from the cache, or
\* issues the collaborators request
GetIssueStateCall ==
    /\ UNCHANGED <<driverVars, search>>
    /\ pc = "idle"
    /\ IF CacheHit(maintainersCache)
       THEN /\ maintainers' = maintainersCache
            /\ pc' = "fetchGraphqlData"
       ELSE /\ maintainers' = NullArray
            /\ pc' = "getCachedMaintainers"
    /\ UNCHANGED <<github, clock, quiet, maintainersCache, response, rawData, currentTime,
                   timeline, state, caught, result>>

\* the collaborators request succeeds: maintainersCache = data.map((u) => u.login)
MaintainersFetched(data) ==
    /\ UNCHANGED <<driverVars, search>>
    /\ pc = "getCachedMaintainers"
    /\ maintainersCache' = [i \in 1..Len(data) |-> data[i].login]
    /\ maintainers' = maintainersCache'
    /\ pc' = "fetchGraphqlData"
    /\ UNCHANGED <<github, clock, quiet, response, rawData, currentTime, timeline, state,
                   caught, result>>

\* the collaborators request succeeds with some list
MaintainersSucceeded ==
    /\ pc = "getCachedMaintainers"
    /\ \E data \in CollaboratorLists : MaintainersFetched(data)

\* the collaborators request fails: getCachedMaintainers throws, and the catch
\* block of getIssueState receives the error
MaintainersFailed ==
    /\ UNCHANGED <<driverVars, search>>
    /\ pc = "getCachedMaintainers"
    /\ caught' = [name |-> "Error", message |-> MaintainerError]
    /\ result' = CatchBlock(caught')
    /\ pc' = "returned"
    /\ UNCHANGED <<github, clock, quiet, maintainersCache, maintainers, response, rawData,
                   currentTime, timeline, state>>

\* the GraphQL request fails in transport: postRequest rethrows the client's error
GraphqlTransportFailed ==
    /\ UNCHANGED <<driverVars, search>>
    /\ pc = "fetchGraphqlData"
    /\ caught' = [name |-> "AxiosError", message |-> TransportError]
    /\ result' = CatchBlock(caught')
    /\ pc' = "returned"
    /\ UNCHANGED <<github, clock, quiet, maintainersCache, maintainers, response, rawData,
                   currentTime, timeline, state>>

\* the GraphQL response arrives: fetchGraphqlData checks it, then getIssueState
\* runs to its return statement
GraphqlResponded(resp, now) ==
    /\ UNCHANGED <<driverVars, search>>
    /\ pc = "fetchGraphqlData"
    /\ pc' = "returned"
    /\ response' = resp
    /\ IF Len(resp.errors) > 0
       THEN /\ caught' = [name |-> "RequestException", message |-> GraphQLError(resp)]
            /\ result' = CatchBlock(caught')
            /\ UNCHANGED <<rawData, currentTime, timeline, state>>
       ELSE IF resp.issue = NullNode
       THEN /\ caught' = [name |-> "RequestException", message |-> NotFoundError]
            /\ result' = CatchBlock(caught')
            /\ UNCHANGED <<rawData, currentTime, timeline, state>>
       ELSE LET issue == resp.issue
                issueAuthor == IssueAuthorOf(issue)
                labelsList == LabelsListOf(issue)
                built == buildHistoryTimeline(issue)
                st == replayHistoryToFindState(built.history, maintainers, issueAuthor)
                daysSinceActivity == DaysSince(now, st.last_activity_time)
                isStale == IsStale(labelsList)
                daysSinceStaleLabel == DaysSinceStaleLabel(isStale, built.labelEvents, now)
                maintainerAlertNeeded == MaintainerAlertNeeded(st, built.lastBotAlertTime)
            IN  /\ rawData' = issue
                /\ currentTime' = now
                /\ timeline' = built
                /\ state' = st
                /\ result' = Verdict(st, maintainerAlertNeeded, isStale, daysSinceActivity,
                                     daysSinceStaleLabel, labelsList, maintainers,
                                     issueAuthor)
                /\ UNCHANGED caught
    /\ UNCHANGED <<github, clock, maintainersCache, maintainers>>

\* the caller takes the returned value; the locals of the call are gone
GetIssueStateReturned ==
    /\ UNCHANGED <<driverVars, search>>
    /\ pc = "returned"
    /\ pc' = "idle"
    /\ maintainers' = NullArray
    /\ response' = NullNode
    /\ rawData' = NullNode
    /\ currentTime' = 0
    /\ timeline' = NoTimeline
    /\ state' = NullNode
    /\ caught' = NoError
    /\ result' = NullNode
    /\ UNCHANGED <<github, clock, quiet, maintainersCache>>

\* the issues a response can carry, with feeds of the lengths l
Issues(l) ==
    [author : IssueAuthors, createdAt : IsoTimes, labels : LabelLists,
     comments : [1..l[1] -> CommentNodes],
     userContentEdits : [1..l[2] -> EditNodes],
     timelineItems : [1..l[3] -> TimelineNodes]]

ErrorResponses ==
    [errors : {<<[message |-> <<"Something went wrong">>]>>},
     issue : {NullNode, NewIssue}]
    \cup {[errors |-> <<>>, issue |-> NullNode]}

\* the GraphQL response carries errors or no issue
GraphqlFailed ==
    /\ pc = "fetchGraphqlData"
    /\ \E resp \in ErrorResponses, now \in NowValues : GraphqlResponded(resp, now)
    /\ UNCHANGED quiet

\* the GraphQL response carries the issue
GraphqlSucceeded ==
    /\ pc = "fetchGraphqlData"
    /\ \E l \in FeedLengths : \E issue \in Issues(l), now \in NowValues :
           GraphqlResponded([errors |-> <<>>, issue |-> issue], now)
    /\ UNCHANGED quiet

\* getIssueState against every response the query can give
Next ==
    \/ GetIssueStateCall
    \/ MaintainersSucceeded
    \/ MaintainersFailed
    \/ GraphqlTransportFailed
    \/ GraphqlFailed
    \/ GraphqlSucceeded
    \/ GetIssueStateReturned

Spec == Init /\ [][Next]_vars

\* ------------------------------------------------------ the issue on GitHub
\* comments(last: n), userContentEdits(last: n), timelineItems(last: n)
LastN(seq, n) == IF Len(seq) <= n THEN seq ELSE SubSeq(seq, Len(seq) - n + 1, Len(seq))

\* labels(first: n)
FirstN(seq, n) == IF Len(seq) <= n THEN seq ELSE SubSeq(seq, 1, n)

\* the issue as the query of fetchGraphqlData returns it
QueryIssue(g) ==
    [author |-> g.author,
     createdAt |-> g.createdAt,
     labels |-> FirstN(g.labels, GRAPHQL_LABEL_FIRST),
     comments |-> LastN(g.comments, GRAPHQL_COMMENT_LIMIT),
     userContentEdits |-> LastN(g.userContentEdits, GRAPHQL_EDIT_LIMIT),
     timelineItems |-> LastN(g.timelineItems, GRAPHQL_TIMELINE_LIMIT)]

\* a comment posted now
PostedComment(login, body) ==
    [author |-> [login |-> login], body |-> body, createdAt |-> [iso |-> clock],
     lastEditedAt |-> NullNode]

\* time passes
Tick ==
    /\ UNCHANGED <<driverVars, search>>
    /\ pc = "idle"
    /\ clock < MaxClock
    /\ clock' = clock + 1
    /\ UNCHANGED <<github, quiet, maintainersCache, pc, maintainers, response, rawData,
                   currentTime, timeline, state, caught, result>>

\* a person comments on the issue
HumanComments ==
    /\ UNCHANGED <<driverVars, search>>
    /\ pc = "idle"
    /\ Len(github.comments) < MaxPosted
    /\ \E login \in Humans :
          github' = [github EXCEPT !.comments =
                        Append(@, PostedComment(login, <<"Any update?">>))]
    /\ quiet' = NotQuiet
    /\ UNCHANGED <<clock, maintainersCache, pc, maintainers, response, rawData,
                   currentTime, timeline, state, caught, result>>

\* the author edits the description of the issue
AuthorEditsDescription ==
    /\ UNCHANGED <<driverVars, search>>
    /\ pc = "idle"
    /\ Len(github.userContentEdits) < MaxPosted
    /\ github' = [github EXCEPT !.userContentEdits =
                     Append(@, [editor |-> github.author, editedAt |-> [iso |-> clock]])]
    /\ quiet' = NotQuiet
    /\ UNCHANGED <<clock, maintainersCache, pc, maintainers, response, rawData,
                   currentTime, timeline, state, caught, result>>

\* an automation comments on the issue: no person acts
BotComments ==
    /\ UNCHANGED <<driverVars, search>>
    /\ pc = "idle"
    /\ Len(github.comments) < MaxPosted
    /\ \E login \in Bots :
          github' = [github EXCEPT !.comments =
                        Append(@, PostedComment(login, <<"Build finished.">>))]
    /\ UNCHANGED <<clock, quiet, maintainersCache, pc, maintainers, response, rawData,
                   currentTime, timeline, state, caught, result>>

\* getIssueState receives the issue as GitHub holds it now
GraphqlFetched ==
    /\ pc = "fetchGraphqlData"
    /\ GraphqlResponded([errors |-> <<>>, issue |-> QueryIssue(github)], clock)
    /\ quiet' = IF result'.maintainer_alert_needed /\ quiet.phase # "alerted"
                THEN [phase |-> "needed", edit |-> state'.last_activity_time]
                ELSE quiet

\* alertMaintainerOfEdit, called on a verdict that asks for the alert: the
\* comment is posted
AlertPosted ==
    /\ UNCHANGED <<driverVars, search>>
    /\ pc = "returned"
    /\ result.status = "success"
    /\ result.maintainer_alert_needed
    /\ Len(github.comments) < MaxPosted
    /\ github' = [github EXCEPT !.comments = Append(@, PostedComment(BOT_NAME, AlertComment))]
    /\ quiet' = IF quiet.phase = "needed" /\ clock > quiet.edit
                THEN [quiet EXCEPT !.phase = "alerted"]
                ELSE quiet
    /\ pc' = "idle"
    /\ maintainers' = NullArray
    /\ response' = NullNode
    /\ rawData' = NullNode
    /\ currentTime' = 0
    /\ timeline' = NoTimeline
    /\ state' = NullNode
    /\ caught' = NoError
    /\ result' = NullNode
    /\ UNCHANGED <<clock, maintainersCache>>

\* alertMaintainerOfEdit: the request fails, the tool returns an error value
AlertFailed ==
    /\ UNCHANGED <<driverVars, search>>
    /\ pc = "returned"
    /\ result.status = "success"
    /\ result.maintainer_alert_needed
    /\ pc' = "idle"
    /\ maintainers' = NullArray
    /\ response' = NullNode
    /\ rawData' = NullNode
    /\ currentTime' = 0
    /\ timeline' = NoTimeline
    /\ state' = NullNode
    /\ caught' = NoError
    /\ result' = NullNode
    /\ UNCHANGED <<github, clock, quiet, maintainersCache>>

\* one issue over time: people and automations act on it, the agent evaluates it
\* and alerts the maintainers
RunNext ==
    \/ Tick
    \/ HumanComments
    \/ AuthorEditsDescription
    \/ BotComments
    \/ GetIssueStateCall
    \/ MaintainersSucceeded
    \/ MaintainersFailed
    \/ GraphqlTransportFailed
    \/ GraphqlFetched
    \/ GetIssueStateReturned
    \/ AlertPosted
    \/ AlertFailed

RunSpec == Init /\ [][RunNext]_vars

\* ------------------------------------------------- main and processSingleIssue
\* allIssues.slice(i, i + CONCURRENCY_LIMIT)
Slice(seq, from, to) ==
    IF from >= Len(seq) THEN <<>>
    ELSE SubSeq(seq, from + 1, IF to < Len(seq) THEN to ELSE Len(seq))

\* the issue numbers of a chunk
InChunk(chunk) == {chunk[k] : k \in 1..Len(chunk)}

\* the calls of processSingleIssue that have not settled
InFlight == {n \in IssueNumbers : tasks[n].pc \notin {"idle", "finished", "rejected"}}

\* the pause condition that also holds after the last chunk
MoreChunks_Always(i, limit, totalCount) == TRUE

\* if (i + CONCURRENCY_LIMIT < totalCount): another chunk follows
MoreChunks(i, limit, totalCount) == i + limit < totalCount

\* the catch block of processSingleIssue passing the error on
ProcessCatch_Rethrows(t) == [t EXCEPT !.pc = "rejected", !.failure = "exception"]

\* processSingleIssue: catch (error) logs it; the function goes on to its return
ProcessCatch(t) == [NoTask EXCEPT !.pc = "finished", !.started = t.started,
                                  !.failure = "exception"]

\* processSingleIssue returns [duration, issueApiCalls]; its locals are gone
ProcessReturn(t) == [NoTask EXCEPT !.pc = "finished", !.started = t.started,
                                   !.failure = t.failure]

\* chunk.map((issueNum) => processSingleIssue(issueNum)): every call of the chunk
\* runs to its first await
StartChunk(m, i) ==
    LET chunk == Slice(m.allIssues, i, i + m.CONCURRENCY_LIMIT)
    IN  /\ main' = [m EXCEPT !.pc = "Promise.all", !.i = i, !.chunk = chunk]
        /\ tasks' = [n \in IssueNumbers |->
                        IF n \in InChunk(chunk)
                        THEN [tasks[n] EXCEPT !.pc = "runAsync", !.started = @ + 1]
                        ELSE tasks[n]]

\* a run starts with some CONCURRENCY_LIMIT
MainInit ==
    /\ github = NewIssue
    /\ clock = 1
    /\ quiet = NotQuiet
    /\ maintainersCache = NullArray
    /\ pc = "idle"
    /\ maintainers = NullArray
    /\ response = NullNode
    /\ rawData = NullNode
    /\ currentTime = 0
    /\ timeline = NoTimeline
    /\ state = NullNode
    /\ caught = NoError
    /\ result = NullNode
    /\ main \in {[NotStarted EXCEPT !.CONCURRENCY_LIMIT = l] : l \in ConcurrencyLimits}
    /\ tasks = [n \in IssueNumbers |-> NoTask]
    /\ collaboratorRequests = 0
    /\ usedMaintainers = {}
    /\ search = NoSearch

\* getOldOpenIssueNumbers has returned: main returns on an empty list, else it
\* starts the first chunk
IssueListFetched ==
    /\ main.pc = "start"
    /\ \E totalCount \in 0..MaxIssues :
          LET allIssues == [k \in 1..totalCount |-> k]
          IN  IF totalCount = 0
              THEN /\ main' = [main EXCEPT !.pc = "done"]
                   /\ UNCHANGED tasks
              ELSE StartChunk([main EXCEPT !.allIssues = allIssues], 0)
    /\ UNCHANGED <<search, issueVars, maintainersCache, collaboratorRequests, usedMaintainers>>

\* Promise.all settles: it rejects with the first rejection, else it resolves when
\* every call of the chunk has; main adds up, then pauses or leaves the loop
ChunkSettled ==
    /\ main.pc = "Promise.all"
    /\ \/ \E n \in InChunk(main.chunk) : tasks[n].pc = "rejected"
       \/ \A n \in InChunk(main.chunk) : tasks[n].pc = "finished"
    /\ IF \E n \in InChunk(main.chunk) : tasks[n].pc = "rejected"
       THEN main' = [main EXCEPT !.pc = "aborted"]
       ELSE IF MoreChunks(main.i, main.CONCURRENCY_LIMIT, Len(main.allIssues))
       THEN main' = [main EXCEPT !.pc = "sleep", !.slept = @ + 1,
                                 !.processedCount = @ + Len(main.chunk)]
       ELSE main' = [main EXCEPT !.pc = "done", !.i = @ + main.CONCURRENCY_LIMIT,
                                 !.processedCount = @ + Len(main.chunk)]
    /\ UNCHANGED <<search, issueVars, maintainersCache, tasks, collaboratorRequests,
                   usedMaintainers>>

\* the pause is over: i += CONCURRENCY_LIMIT, and the next chunk starts if i is
\* below totalCount
SleepOver ==
    /\ main.pc = "sleep"
    /\ IF main.i + main.CONCURRENCY_LIMIT < Len(main.allIssues)
       THEN StartChunk(main, main.i + main.CONCURRENCY_LIMIT)
       ELSE /\ main' = [main EXCEPT !.pc = "done", !.i = @ + main.CONCURRENCY_LIMIT]
            /\ UNCHANGED tasks
    /\ UNCHANGED <<search, issueVars, maintainersCache, collaboratorRequests, usedMaintainers>>

\* the side-effecting tools that post a comment and then change the issue
Tools == {"closeAsStale", "addStaleLabelAndComment"}

COMMENT_REQUEST == "POST /issues/{item_number}/comments"

\* the request a tool sends after its comment
SecondRequest(tool) ==
    IF tool = "closeAsStale"
    THEN "PATCH /issues/{item_number}"
    ELSE "POST /issues/{item_number}/labels"

\* what the second request does to the issue
SecondEffect(tool) == IF tool = "closeAsStale" THEN "closed" ELSE STALE_LABEL_NAME[1]

\* the catch blocks of the two tools
ToolError(tool) ==
    errorResponse(IF tool = "closeAsStale"
                  THEN <<"Error closing issue: ", "AxiosError">>
                  ELSE <<"Error marking issue as stale: ", "AxiosError">>)

\* a tool that goes on to its second request when its comment failed
AfterCommentFailed_SendsSecond(t) ==
    [t EXCEPT !.pc = "secondRequest", !.sent = Append(@, SecondRequest(t.tool))]

\* the comment request throws inside try: the catch block returns the error value
AfterCommentFailed(t) ==
    [t EXCEPT !.pc = "runAsync", !.turn = 2, !.toolResult = ToolError(t.tool)]

\* the tasks with the n-th replaced
WithTask(n, t) == [tasks EXCEPT ![n] = t]

\* the agent calls get_issue_state: getCachedMaintainers answers from the cache,
\* or issues the collaborators request
TaskGetIssueState(n) ==
    /\ tasks[n].pc = "runAsync"
    /\ tasks[n].turn = 0
    /\ IF CacheHit(maintainersCache)
       THEN /\ tasks' = WithTask(n, [tasks[n] EXCEPT !.pc = "fetchGraphqlData",
                                                      !.maintainers = maintainersCache])
            /\ UNCHANGED collaboratorRequests
       ELSE /\ tasks' = WithTask(n, [tasks[n] EXCEPT !.pc = "getCachedMaintainers",
                                                      !.fetched = TRUE])
            /\ collaboratorRequests' = collaboratorRequests + 1
    /\ UNCHANGED <<search, issueVars, maintainersCache, main, usedMaintainers>>

\* the collaborators listing as it stands during one run: a maintainer may be
\* added or removed between two requests
RunCollaboratorLists == {<<>>, <<[login |-> <<"bob">>]>>}

\* the collaborators request of this call succeeds
TaskMaintainersSucceeded(n) ==
    /\ tasks[n].pc = "getCachedMaintainers"
    /\ \E data \in RunCollaboratorLists :
          /\ maintainersCache' = [i \in 1..Len(data) |-> data[i].login]
          /\ tasks' = WithTask(n, [tasks[n] EXCEPT !.pc = "fetchGraphqlData",
                                                    !.maintainers = maintainersCache'])
    /\ UNCHANGED <<search, issueVars, main, collaboratorRequests, usedMaintainers>>

\* the collaborators request of this call fails: getCachedMaintainers throws, the
\* catch block of getIssueState returns the error verdict
TaskMaintainersFailed(n) ==
    /\ tasks[n].pc = "getCachedMaintainers"
    /\ tasks' = WithTask(n, [tasks[n] EXCEPT
                    !.pc = "runAsync", !.turn = 1, !.fetched = FALSE,
                    !.verdict = CatchBlock([name |-> "Error",
                                            message |-> MaintainerError]).status,
                    !.failure = "error verdict"])
    /\ UNCHANGED <<search, issueVars, maintainersCache, main, collaboratorRequests,
                   usedMaintainers>>

\* the GraphQL query of this call gives the issue: the evaluation uses the
\* maintainer list of the call and returns the verdict
TaskGraphqlSucceeded(n) ==
    /\ tasks[n].pc = "fetchGraphqlData"
    /\ usedMaintainers' = usedMaintainers \cup {tasks[n].maintainers}
    /\ tasks' = WithTask(n, [tasks[n] EXCEPT
                    !.pc = "runAsync", !.turn = 1, !.fetched = FALSE,
                    !.maintainers = NullArray, !.verdict = "success"])
    /\ UNCHANGED <<search, issueVars, maintainersCache, main, collaboratorRequests>>

\* the GraphQL query of this call fails (transport, GraphQL errors, no issue)
TaskGraphqlFailed(n) ==
    /\ tasks[n].pc = "fetchGraphqlData"
    /\ tasks' = WithTask(n, [tasks[n] EXCEPT
                    !.pc = "runAsync", !.turn = 1, !.fetched = FALSE,
                    !.maintainers = NullArray,
                    !.verdict = CatchBlock([name |-> "RequestException",
                                            message |-> NotFoundError]).status,
                    !.failure = "error verdict"])
    /\ UNCHANGED <<search, issueVars, maintainersCache, main, collaboratorRequests,
                   usedMaintainers>>

\* the agent calls close_as_stale or add_stale_label_and_comment: the tool sends
\* its comment
TaskToolCall(n) ==
    /\ tasks[n].pc = "runAsync"
    /\ tasks[n].turn = 1
    /\ \E tool \in Tools :
          tasks' = WithTask(n, [tasks[n] EXCEPT
                      !.pc = "commentRequest", !.verdict = "none", !.tool = tool,
                      !.sent = <<COMMENT_REQUEST>>])
    /\ UNCHANGED <<search, issueVars, maintainersCache, main, collaboratorRequests,
                   usedMaintainers>>

\* the comment is posted: the tool sends its second request
TaskCommentPosted(n) ==
    /\ tasks[n].pc = "commentRequest"
    /\ tasks' = WithTask(n, [tasks[n] EXCEPT
                    !.pc = "secondRequest", !.posted = @ \cup {"comment"},
                    !.sent = Append(@, SecondRequest(tasks[n].tool))])
    /\ UNCHANGED <<search, issueVars, maintainersCache, main, collaboratorRequests,
                   usedMaintainers>>

\* the comment request fails
TaskCommentFailed(n) ==
    /\ tasks[n].pc = "commentRequest"
    /\ tasks' = WithTask(n, AfterCommentFailed(tasks[n]))
    /\ UNCHANGED <<search, issueVars, maintainersCache, main, collaboratorRequests,
                   usedMaintainers>>

\* the second request succeeds: return {status: 'success'}
TaskSecondSucceeded(n) ==
    /\ tasks[n].pc = "secondRequest"
    /\ tasks' = WithTask(n, [tasks[n] EXCEPT
                    !.pc = "runAsync", !.turn = 2,
                    !.posted = @ \cup {SecondEffect(tasks[n].tool)},
                    !.toolResult = [status |-> "success"]])
    /\ UNCHANGED <<search, issueVars, maintainersCache, main, collaboratorRequests,
                   usedMaintainers>>

\* the second request fails: the catch block returns the error value
TaskSecondFailed(n) ==
    /\ tasks[n].pc = "secondRequest"
    /\ tasks' = WithTask(n, [tasks[n] EXCEPT
                    !.pc = "runAsync", !.turn = 2, !.toolResult = ToolError(tasks[n].tool)])
    /\ UNCHANGED <<search, issueVars, maintainersCache, main, collaboratorRequests,
                   usedMaintainers>>

\* runAsync ends: processSingleIssue returns
TaskAgentFinished(n) ==
    /\ tasks[n].pc = "runAsync"
    /\ tasks' = WithTask(n, ProcessReturn(tasks[n]))
    /\ UNCHANGED <<search, issueVars, maintainersCache, main, collaboratorRequests,
                   usedMaintainers>>

\* the runner throws: the catch block of processSingleIssue takes the error
TaskAgentThrows(n) ==
    /\ tasks[n].pc = "runAsync"
    /\ tasks' = WithTask(n, ProcessCatch(tasks[n]))
    /\ UNCHANGED <<search, issueVars, maintainersCache, main, collaboratorRequests,
                   usedMaintainers>>

MainNext ==
    \/ IssueListFetched
    \/ ChunkSettled
    \/ SleepOver
    \/ \E n \in IssueNumbers : TaskGetIssueState(n)
    \/ \E n \in IssueNumbers : TaskMaintainersSucceeded(n)
    \/ \E n \in IssueNumbers : TaskMaintainersFailed(n)
    \/ \E n \in IssueNumbers : TaskGraphqlSucceeded(n)
    \/ \E n \in IssueNumbers : TaskGraphqlFailed(n)
    \/ \E n \in IssueNumbers : TaskToolCall(n)
    \/ \E n \in IssueNumbers : TaskCommentPosted(n)
    \/ \E n \in IssueNumbers : TaskCommentFailed(n)
    \/ \E n \in IssueNumbers : TaskSecondSucceeded(n)
    \/ \E n \in IssueNumbers : TaskSecondFailed(n)
    \/ \E n \in IssueNumbers : TaskAgentFinished(n)
    \/ \E n \in IssueNumbers : TaskAgentThrows(n)

\* one run of main
MainSpec == MainInit /\ [][MainNext]_vars

\* every request settles (the HTTP client times out after 60 s), every pause ends
\* and the event loop resumes whatever is ready: the run never stops while a step
\* is possible
LiveMainSpec == MainSpec /\ WF_vars(MainNext)

\* ---------------------------------------------------- getOldOpenIssueNumbers
\* per_page of the search request; the code asks for 100
PER_PAGE == 2

\* a number that is no number
NaN == [nan |-> TRUE]

\* the daysOld a caller passes: none, seven days, or what a threshold that does
\* not parse gives
DaysOldValues == {NullNode, [value |-> 7], NaN}

\* if (daysOld == null) daysOld = STALE_HOURS_THRESHOLD / 24
DaysOldOrDefault(daysOld) ==
    IF daysOld = NullNode THEN [value |-> STALE_HOURS_THRESHOLD \div 24] ELSE daysOld

\* cutoffDate is a valid date: toISOString throws a RangeError on any other
ValidCutoff(daysOld) == daysOld # NaN

\* the items of a search response: issues, and pull requests marked as such
SearchItems == [number : {1, 2}, pull_request : BOOLEAN]

\* the responses of the search: items of some length, or no items field
SearchResponses(len) == [items : [1..len -> SearchItems]]

\* data.items ?? []
ItemsOf(data) == IF "items" \in DOMAIN data THEN data.items ELSE <<>>

\* the filter that takes pull requests for issues
KeepsItem_Every(item) == TRUE

\* if (!('pull_request' in item))
KeepsItem(item) == ~item.pull_request

\* for (const item of items): issueNumbers.push(item.number) for the issues
RECURSIVE PushNumbers(_, _, _)
PushNumbers(issueNumbers, items, k) ==
    IF k > Len(items) THEN issueNumbers
    ELSE PushNumbers(IF KeepsItem(items[k])
                     THEN Append(issueNumbers, items[k].number)
                     ELSE issueNumbers,
                     items, k + 1)

\* the body of the try block once the response is there
AfterPage(s, data) ==
    LET items == ItemsOf(data)
        got == [s EXCEPT !.received = Append(@, [ok |-> TRUE, items |-> items])]
    IN  IF Len(items) = 0
        THEN [got EXCEPT !.pc = "returned"]
        ELSE IF Len(items) < PER_PAGE
        THEN [got EXCEPT !.pc = "returned",
                         !.issueNumbers = PushNumbers(@, items, 1)]
        ELSE [got EXCEPT !.issueNumbers = PushNumbers(@, items, 1),
                         !.page = @ + 1,
                         !.asked = Append(@, s.page + 1)]

\* getOldOpenIssueNumbers is called: it computes the cutoff and sends the request
\* for page 1, or toISOString throws
GetOldOpenIssueNumbersCall ==
    /\ search.pc = "idle"
    /\ \E d \in DaysOldValues :
          LET daysOld == DaysOldOrDefault(d)
          IN  IF ValidCutoff(daysOld)
              THEN search' = [search EXCEPT !.pc = "getRequest", !.daysOld = daysOld,
                                            !.page = 1, !.asked = <<1>>]
              ELSE search' = [search EXCEPT !.pc = "thrown", !.daysOld = daysOld]
    /\ UNCHANGED <<issueVars, driverVars, maintainersCache>>

\* the search answers; it serves no more than MaxPages full pages
SearchPageFetched ==
    /\ search.pc = "getRequest"
    /\ \E len \in 0..PER_PAGE :
          /\ len = PER_PAGE => search.page <= MaxPages
          /\ \E data \in SearchResponses(len) : search' = AfterPage(search, data)
    /\ UNCHANGED <<issueVars, driverVars, maintainersCache>>

\* the search answers without an items field
SearchAnsweredWithoutItems ==
    /\ search.pc = "getRequest"
    /\ search' = AfterPage(search, [total_count |-> 0])
    /\ UNCHANGED <<issueVars, driverVars, maintainersCache>>

\* the request fails: the catch block logs and leaves the loop
SearchPageFailed ==
    /\ search.pc = "getRequest"
    /\ search' = [search EXCEPT !.pc = "returned",
                                !.received = Append(@, [ok |-> FALSE, items |-> <<>>])]
    /\ UNCHANGED <<issueVars, driverVars, maintainersCache>>

SearchNext ==
    \/ GetOldOpenIssueNumbersCall
    \/ SearchPageFetched
    \/ SearchAnsweredWithoutItems
    \/ SearchPageFailed

\* one call of getOldOpenIssueNumbers
SearchSpec == Init /\ [][SearchNext]_vars

\* ------------------------------------------------------------------- claims
\* a successful evaluation has returned
Evaluated == pc = "returned" /\ result.status = "success"

LastOf(seq) == seq[Len(seq)]

MaxIn(S) == CHOOSE m \in S : \A x \in S : x <= m

\* the comments of the fetched issue that carry the bot-alert signature
SignatureComments(issue) ==
    {i \in 1..Len(issue.comments) :
        /\ issue.comments[i] # NullNode
        /\ issue.comments[i].body # Null
        /\ Includes(issue.comments[i].body, BOT_ALERT_SIGNATURE)}

\* the creation times of the fetched alert comments
AlertTimes(issue) == {issue.comments[i].createdAt.iso : i \in SignatureComments(issue)}

\* the fetched issue without its alert comments
WithoutSignatureComments(issue) ==
    [issue EXCEPT !.comments =
        LET keep == {i \in 1..Len(issue.comments) : i \notin SignatureComments(issue)}
            nth(k) == CHOOSE i \in keep : Cardinality({j \in keep : j <= i}) = k
        IN  [k \in 1..Cardinality(keep) |-> issue.comments[nth(k)]]]

\* the times at which the fetched timeline applied the stale label
StaleLabelTimes(issue) ==
    {issue.timelineItems[i].createdAt.iso : i \in
        {j \in 1..Len(issue.timelineItems) :
            /\ issue.timelineItems[j] # NullNode
            /\ issue.timelineItems[j].typename = "LabeledEvent"
            /\ issue.timelineItems[j].label # NullNode
            /\ issue.timelineItems[j].label.name = STALE_LABEL_NAME}}

\* C1: the replayed last_activity_time, last_action_type and last_actor_name are
\* the time, kind and actor of the last event of the sorted history, whose time
\* is the greatest of the history; a replay of that event alone gives the same
\* three values.
C1_LastEventDecides ==
    Evaluated =>
        LET h == timeline.history
            last == LastOf(h)
            alone == replayHistoryToFindState(<<last>>, maintainers, result.issue_author)
        IN  /\ Len(h) > 0
            /\ \A i \in 1..Len(h) : h[i].time <= last.time
            /\ state.last_activity_time = last.time
            /\ state.last_action_type = last.type
            /\ state.last_actor_name = last.actor
            /\ result.last_action_type = last.type
            /\ result.last_actor_name = last.actor
            /\ result.days_since_activity = currentTime - last.time
            /\ alone.last_activity_time = state.last_activity_time
            /\ alone.last_action_type = state.last_action_type
            /\ alone.last_actor_name = state.last_actor_name

\* C1 witness: a history of three events whose last one differs in kind and in
\* actor from the one before it
C1_Witness ==
    /\ Evaluated
    /\ Len(timeline.history) = 3
    /\ LastOf(timeline.history).type # "created"
    /\ timeline.history[2].type # LastOf(timeline.history).type
    /\ timeline.history[2].actor # LastOf(timeline.history).actor
    /\ timeline.history[2].time < LastOf(timeline.history).time

\* C2: last_comment_text is non-null exactly when the last event of the history
\* is a comment, and then it is the body of that comment.
C2_CommentTextOnlyOfLastComment ==
    Evaluated =>
        LET last == LastOf(timeline.history)
        IN  /\ (result.last_comment_text # Null) <=> (last.type = "commented")
            /\ last.type = "commented" =>
                  /\ result.last_comment_text = last.data
                  /\ \E i \in 1..Len(rawData.comments) :
                        /\ rawData.comments[i] # NullNode
                        /\ rawData.comments[i].author # NullNode
                        /\ rawData.comments[i].author.login = last.actor
                        /\ CommentTime(rawData.comments[i]) = last.time
                        /\ result.last_comment_text =
                              (IF rawData.comments[i].body = Null
                               THEN EmptyString ELSE rawData.comments[i].body)

\* C2 witness: a comment followed by a later event that is no comment
C2_Witness ==
    /\ Evaluated
    /\ \E i \in 1..(Len(timeline.history) - 1) :
          /\ timeline.history[i].type = "commented"
          /\ timeline.history[i].time < LastOf(timeline.history).time
    /\ LastOf(timeline.history).type \in {"edited_description", "renamed_title", "reopened"}
    /\ result.last_comment_text = Null

\* the role the replay gives the i-th event of the history
RoleAt(i) ==
    replayHistoryToFindState(SubSeq(timeline.history, 1, i), maintainers,
                             result.issue_author).last_action_role

\* C3: every event's actor gets exactly one role: author if it is the issue
\* author (also when a maintainer), else maintainer if in the maintainer list,
\* else other_user; an absent actor is other_user.
C3_RoleClassification ==
    Evaluated =>
        /\ \A i \in 1..Len(timeline.history) :
              LET actor == timeline.history[i].actor
                  isAuthor == actor = result.issue_author
                  isMaintainer == \E k \in 1..Len(result.maintainers) :
                                      result.maintainers[k] = actor
              IN  /\ RoleAt(i) \in {"author", "maintainer", "other_user"}
                  /\ isAuthor => RoleAt(i) = "author"
                  /\ (~isAuthor /\ isMaintainer) => RoleAt(i) = "maintainer"
                  /\ (~isAuthor /\ ~isMaintainer) => RoleAt(i) = "other_user"
                  /\ actor = Null => RoleAt(i) = "other_user"
        /\ result.last_action_role = RoleAt(Len(timeline.history))

\* C3 witness: the last actor is the issue author and also a maintainer, after
\* an event of an absent actor
C3_Witness ==
    /\ Evaluated
    /\ Len(timeline.history) >= 2
    /\ LastOf(timeline.history).actor = result.issue_author
    /\ \E k \in 1..Len(result.maintainers) : result.maintainers[k] = result.issue_author
    /\ result.last_action_role = "author"

\* C4: maintainer_alert_needed holds exactly when the last role is author or
\* other_user, the last action is a description edit, and no fetched alert
\* comment was created strictly after the last activity.
C4_AlertNeededIff ==
    Evaluated =>
        (result.maintainer_alert_needed <=>
            /\ result.last_action_role \in {"author", "other_user"}
            /\ result.last_action_type = "edited_description"
            /\ ~(\E t \in AlertTimes(rawData) : t > state.last_activity_time))

\* C4 witness: an alert comment created at the very time of the edit does not
\* suppress the alert
C4_Witness ==
    /\ Evaluated
    /\ result.maintainer_alert_needed
    /\ AlertTimes(rawData) = {state.last_activity_time}

\* C5 as stated: a last description edit by any member of the maintainer list
\* gives maintainer_alert_needed = false.
C5_MaintainerEditNeverAlerts ==
    (/\ Evaluated
     /\ LastOf(timeline.history).type = "edited_description"
     /\ ArrayIncludes(maintainers, LastOf(timeline.history).actor))
        => ~result.maintainer_alert_needed

\* C5 amended: a last description edit by a member of the maintainer list who is
\* not the issue author gives maintainer_alert_needed = false.
C5_MaintainerNotAuthorEditNeverAlerts ==
    (/\ Evaluated
     /\ LastOf(timeline.history).type = "edited_description"
     /\ ArrayIncludes(maintainers, LastOf(timeline.history).actor)
     /\ LastOf(timeline.history).actor # result.issue_author)
        => ~result.maintainer_alert_needed

\* C5 witness: a maintainer who is not the author edited the description last,
\* and no alert comment was fetched
C5_Witness ==
    /\ Evaluated
    /\ LastOf(timeline.history).type = "edited_description"
    /\ ArrayIncludes(maintainers, LastOf(timeline.history).actor)
    /\ LastOf(timeline.history).actor # result.issue_author
    /\ AlertTimes(rawData) = {}
    /\ ~result.maintainer_alert_needed

\* C6 as stated: once an evaluation asked for the alert on an edit and the alert
\* was posted after the edit, no later evaluation asks for it again while no
\* person acts on the issue.
C6_AlertedAtMostOnce ==
    (Evaluated /\ quiet.phase = "alerted") => ~result.maintainer_alert_needed


\* C7: a comment carrying the signature is no 'commented' event; the only thing
\* alert comments decide is lastBotAlertTime, the greatest of their creation
\* times; history and label applications are those of the issue without them.
C7_AlertCommentsOnlySetLedger ==
    Evaluated =>
        /\ \A i \in 1..Len(timeline.history) :
              timeline.history[i].type = "commented" =>
                  ~Includes(timeline.history[i].data, BOT_ALERT_SIGNATURE)
        /\ timeline.lastBotAlertTime =
              (IF AlertTimes(rawData) = {} THEN NullDate ELSE MaxIn(AlertTimes(rawData)))
        /\ timeline.history = buildHistoryTimeline(WithoutSignatureComments(rawData)).history
        /\ timeline.labelEvents =
              buildHistoryTimeline(WithoutSignatureComments(rawData)).labelEvents
        /\ buildHistoryTimeline(WithoutSignatureComments(rawData)).lastBotAlertTime = NullDate

\* C7 witness: two alert comments, the newer one first in the feed and one of
\* them written by a human
C7_Witness ==
    /\ Evaluated
    /\ Len(rawData.comments) = 2
    /\ SignatureComments(rawData) = {1, 2}
    /\ rawData.comments[1].createdAt.iso > rawData.comments[2].createdAt.iso
    /\ rawData.comments[1].author.login = <<"bob">>
    /\ timeline.lastBotAlertTime = rawData.comments[1].createdAt.iso

\* C8: is_stale says whether the fetched label list holds the stale label;
\* days_since_stale_label is 0 unless is_stale and a stale-label application was
\* fetched, and then it is now minus the newest application.
C8_StaleLabelAge ==
    Evaluated =>
        /\ result.is_stale <=>
              (\E i \in 1..Len(rawData.labels) : rawData.labels[i].name = STALE_LABEL_NAME)
        /\ result.days_since_stale_label =
              (IF result.is_stale /\ StaleLabelTimes(rawData) # {}
               THEN currentTime - MaxIn(StaleLabelTimes(rawData))
               ELSE 0)

\* C8 witness: the stale label is on the issue and was applied twice, the newer
\* application first in the feed
C8_Witness ==
    /\ Evaluated
    /\ result.is_stale
    /\ Len(timeline.labelEvents) = 2
    /\ timeline.labelEvents[1] > timeline.labelEvents[2]
    /\ result.days_since_stale_label = currentTime - timeline.labelEvents[1]

\* C9: getIssueState returns, never throws: the returned value has status
\* success or error; a response with errors gives the GraphQL error verdict
\* whether or not it carries the issue, a response without the issue the
\* not-found verdict, and an error verdict is {status, message} only.
C9_ReturnsNeverThrows ==
    pc = "returned" =>
        /\ result.status \in {"success", "error"}
        /\ result.status = "error" <=> caught # NoError
        /\ result.status = "error" => DOMAIN result = {"status", "message"}
        /\ (response # NullNode /\ Len(response.errors) > 0) =>
              result = [status |-> "error",
                        message |-> <<"Network Error: ", "GraphQL Error: ">>
                                    \o response.errors[1].message]
        /\ (response # NullNode /\ Len(response.errors) = 0 /\ response.issue = NullNode) =>
              result = [status |-> "error",
                        message |-> <<"Network Error: ">> \o NotFoundError]
        /\ (response = NullNode) =>
              /\ result.status = "error"
              /\ SubSeq(result.message, 1, 1) = <<"Analysis Error: ">>

\* C9 witness: the response carries both errors and the issue
C9_Witness ==
    /\ pc = "returned"
    /\ response # NullNode
    /\ Len(response.errors) > 0
    /\ response.issue # NullNode
    /\ result.status = "error"

\* C10 as stated: a failed maintainer fetch leaves getIssueState as an exception,
\* not as an error verdict, and no further evaluation is started after it.
C10_MaintainerFailureStopsRun ==
    [][(pc = "returned" /\ caught.message = MaintainerError) =>
          (result.status = "thrown" /\ pc' = "returned")]_vars

\* C11 as stated: over a run in which nothing fails, at most one collaborators
\* request is issued and every evaluation uses the same maintainer list, also
\* when the calls of a chunk reach getCachedMaintainers before the cache is set.
C11_MaintainersFetchedOnce ==
    (\A n \in IssueNumbers : tasks[n].failure = "none") =>
        /\ collaboratorRequests <= 1
        /\ Cardinality(usedMaintainers) <= 1

\* the issues main listed
Listed == InChunk(main.allIssues)

\* C12: no call of processSingleIssue ever rejects, so Promise.all never rejects
\* and main is never aborted; whatever failed in one issue, main reaches its end,
\* and then every listed issue has been processed to its return.
C12_FailureIsolation ==
    /\ [](\A n \in IssueNumbers : tasks[n].pc # "rejected")
    /\ [](main.pc # "aborted")
    /\ [](main.pc = "done" => \A n \in Listed : tasks[n].pc = "finished")
    /\ <>(main.pc = "done")

\* C12 witness: in a chunk of two the runner threw for one issue and the other
\* got an error verdict; both returned, and the issue of the next chunk was
\* processed without failure
C12_Witness ==
    /\ main.pc = "done"
    /\ main.CONCURRENCY_LIMIT = 2
    /\ Len(main.allIssues) = 3
    /\ tasks[1].failure = "exception"
    /\ tasks[2].failure = "error verdict"
    /\ tasks[3].failure = "none"
    /\ \A n \in Listed : tasks[n].pc = "finished"

\* C13: the history is never empty, holds exactly one 'created' event, which
\* carries the creation time of the issue and its author (or null), and its
\* times never decrease from one element to the next.
C13_TimelineInvariant ==
    Evaluated =>
        LET h == timeline.history
            created == {i \in 1..Len(h) : h[i].type = "created"}
        IN  /\ Len(h) >= 1
            /\ Cardinality(created) = 1
            /\ \A i \in created :
                  h[i] = [type |-> "created",
                          actor |-> (IF rawData.author = NullNode
                                     THEN Null ELSE rawData.author.login),
                          time |-> rawData.createdAt.iso,
                          data |-> Null]
            /\ \A i \in 1..(Len(h) - 1) : h[i].time <= h[i + 1].time

\* C13 witness: a comment that is later than the description edit ingested after
\* it, on an issue without a known author
C13_Witness ==
    /\ Evaluated
    /\ rawData.author = NullNode
    /\ Len(timeline.history) = 3
    /\ timeline.history[1].type = "created"
    /\ timeline.history[2].type = "edited_description"
    /\ timeline.history[3].type = "commented"
    /\ timeline.history[2].time < timeline.history[3].time

\* the history before the sort: created, then the events of the comments, of the
\* description edits and of the timeline items, each feed in its order
Ingested(data) ==
    ProcessTimeline(
        ProcessEdits(
            ProcessComments([history |-> <<CreatedEvent(data)>>, labelEvents |-> <<>>,
                             lastBotAlertTime |-> NullDate],
                            data.comments, 1),
            data.userContentEdits, 1),
        data.timelineItems, 1).history

\* the events of a sequence that carry the time t, in their order
RECURSIVE AtTime(_, _)
AtTime(h, t) ==
    IF h = <<>> THEN <<>>
    ELSE (IF Head(h).time = t THEN <<Head(h)>> ELSE <<>>) \o AtTime(Tail(h), t)

\* the events of a sequence by time, equal times in the order of the sequence
RECURSIVE ByTimeThenOrder(_, _)
ByTimeThenOrder(h, t) ==
    IF t > MaxTime + 1 THEN <<>> ELSE AtTime(h, t) \o ByTimeThenOrder(h, t + 1)

\* the feed an event comes from: created, comments, edits, timeline items
FeedRank(e) ==
    CASE e.type = "created" -> 0
      [] e.type = "commented" -> 1
      [] e.type = "edited_description" -> 2
      [] OTHER -> 3

\* C14: the sorted history is the ingested events by time, events of equal time
\* in ingestion order: created, comments, edits, timeline items, each feed in
\* its order. So 'created' is first when nothing is earlier than the creation,
\* and of the events at the last instant the one ingested last decides the state.
C14_TiesInIngestionOrder ==
    Evaluated =>
        LET h == timeline.history
            ingested == Ingested(rawData)
            newest == AtTime(ingested, LastOf(h).time)
        IN  /\ h = ByTimeThenOrder(ingested, 1)
            /\ \A i \in 1..(Len(h) - 1) :
                  h[i].time = h[i + 1].time => FeedRank(h[i]) <= FeedRank(h[i + 1])
            /\ (\A i \in 1..Len(h) : h[i].time >= rawData.createdAt.iso) =>
                  h[1].type = "created"
            /\ LastOf(h) = LastOf(newest)
            /\ state.last_action_type = LastOf(newest).type
            /\ state.last_actor_name = LastOf(newest).actor

\* C14 witness: a comment and a description edit at the very instant the issue
\* was created, by different people: the edit decides
C14_Witness ==
    /\ Evaluated
    /\ Len(timeline.history) = 3
    /\ \A i \in 1..3 : timeline.history[i].time = rawData.createdAt.iso
    /\ timeline.history[1].type = "created"
    /\ timeline.history[2].type = "commented"
    /\ timeline.history[3].type = "edited_description"
    /\ timeline.history[2].actor # timeline.history[3].actor
    /\ result.last_action_type = "edited_description"

\* the fetched comments that become 'commented' events: written by a person and
\* without the bot-alert signature
HumanComments_Fetched(issue) ==
    {i \in 1..Len(issue.comments) :
        /\ issue.comments[i] # NullNode
        /\ i \notin SignatureComments(issue)
        /\ issue.comments[i].author # NullNode
        /\ IsHumanActor(issue.comments[i].author.login)}

\* the time the claim gives the event of a comment
EditedOrCreated(c) ==
    IF c.lastEditedAt = NullNode THEN c.createdAt.iso ELSE c.lastEditedAt.iso

\* C15: the 'commented' events are the comments of people, each at its
\* last-edited time when it has one and at its creation time otherwise; a comment
\* edited after every other event is the last activity; the bot-alert ledger is
\* the greatest creation time of the alert comments, whatever their edits.
C15_CommentedAtLastEdit ==
    Evaluated =>
        LET h == timeline.history
            commented == {i \in 1..Len(h) : h[i].type = "commented"}
            people == HumanComments_Fetched(rawData)
        IN  /\ {<<h[i].actor, h[i].time>> : i \in commented} =
                  {<<rawData.comments[i].author.login, EditedOrCreated(rawData.comments[i])>> :
                      i \in people}
            /\ Cardinality(commented) = Cardinality(people)
            /\ \A i \in people :
                  (/\ rawData.comments[i].lastEditedAt # NullNode
                   /\ \A k \in 1..Len(Ingested(rawData)) :
                         Ingested(rawData)[k].type # "commented" =>
                             Ingested(rawData)[k].time < rawData.comments[i].lastEditedAt.iso
                   /\ \A j \in people \ {i} :
                         EditedOrCreated(rawData.comments[j]) <
                             rawData.comments[i].lastEditedAt.iso)
                  => /\ state.last_activity_time = rawData.comments[i].lastEditedAt.iso
                     /\ state.last_action_type = "commented"
                     /\ state.last_actor_name = rawData.comments[i].author.login
            /\ timeline.lastBotAlertTime \in AlertTimes(rawData) \cup {NullDate}

\* C15 witness: a comment written before a description edit and edited after it
\* is the last activity
C15_Witness ==
    /\ Evaluated
    /\ Len(rawData.comments) = 1
    /\ Len(rawData.userContentEdits) = 1
    /\ Len(timeline.history) = 3
    /\ rawData.comments[1].lastEditedAt # NullNode
    /\ rawData.comments[1].createdAt.iso < timeline.history[2].time
    /\ timeline.history[2].type = "edited_description"
    /\ timeline.history[2].time < rawData.comments[1].lastEditedAt.iso
    /\ timeline.history[3].type = "commented"
    /\ state.last_activity_time = rawData.comments[1].lastEditedAt.iso
    /\ result.last_action_type = "commented"

\* an author, editor or actor that is absent or excluded: the bot itself or a
\* name ending in [bot]
ExcludedActor(user) ==
    \/ user = NullNode
    \/ user.login = <<"adk-bot">>
    \/ user.login[Len(user.login)] = "[bot]"

\* a comment carrying the bot-alert signature
HasSignature(c) == c.body # Null /\ Includes(c.body, BOT_ALERT_SIGNATURE)

\* the elements of a sequence at the positions of a set, in their order
Pick(seq, keep) ==
    LET nth(k) == CHOOSE i \in keep : Cardinality({j \in keep : j <= i}) = k
    IN  [k \in 1..Cardinality(keep) |-> seq[nth(k)]]

\* the fetched issue without its null nodes and without the comments, edits,
\* renames and reopens of absent or excluded actors; alert comments of such
\* actors are dropped as well when alsoAlerts holds
WithoutExcluded(issue, alsoAlerts) ==
    [issue EXCEPT
        !.comments = Pick(@, {i \in 1..Len(@) :
                        /\ @[i] # NullNode
                        /\ ~(ExcludedActor(@[i].author) /\ (alsoAlerts \/ ~HasSignature(@[i])))}),
        !.userContentEdits = Pick(@, {i \in 1..Len(@) :
                        /\ @[i] # NullNode
                        /\ ~ExcludedActor(@[i].editor)}),
        !.timelineItems = Pick(@, {i \in 1..Len(@) :
                        /\ @[i] # NullNode
                        /\ (@[i].typename = "LabeledEvent" \/ ~ExcludedActor(@[i].actor))})]

\* every event but 'created' has a present actor that is no bot
OnlyPeopleInHistory ==
    \A i \in 1..Len(timeline.history) :
        timeline.history[i].type # "created" =>
            /\ timeline.history[i].actor # Null
            /\ ~ExcludedActor([login |-> timeline.history[i].actor])

\* C16 as stated: every event but 'created' is of a person, and the output is
\* that of the issue without null nodes and without every comment, edit, rename
\* and reopen of an absent or excluded actor.
C16_ExcludedLeaveNoTrace ==
    Evaluated =>
        /\ OnlyPeopleInHistory
        /\ timeline = buildHistoryTimeline(WithoutExcluded(rawData, TRUE))

\* C16 amended: the same, for the comments that do not carry the bot-alert
\* signature; an alert comment sets lastBotAlertTime whoever wrote it.
C16_ExcludedLeaveNoTraceButAlerts ==
    Evaluated =>
        /\ OnlyPeopleInHistory
        /\ timeline = buildHistoryTimeline(WithoutExcluded(rawData, FALSE))
        /\ timeline.history = buildHistoryTimeline(WithoutExcluded(rawData, TRUE)).history
        /\ timeline.labelEvents =
              buildHistoryTimeline(WithoutExcluded(rawData, TRUE)).labelEvents

\* C16 witness: a comment of github-actions[bot] and a null node among the
\* description edits leave the history with its 'created' event alone
C16_Witness ==
    /\ Evaluated
    /\ Len(rawData.comments) = 1
    /\ rawData.comments[1] # NullNode
    /\ rawData.comments[1].author = [login |-> <<"github-actions", "[bot]">>]
    /\ ~HasSignature(rawData.comments[1])
    /\ rawData.userContentEdits = <<NullNode>>
    /\ Len(timeline.history) = 1

\* the label applications among the fetched timeline items
LabeledItems(issue) ==
    {i \in 1..Len(issue.timelineItems) :
        /\ issue.timelineItems[i] # NullNode
        /\ issue.timelineItems[i].typename = "LabeledEvent"}

\* the applications of the stale label among them
StaleLabeledItems(issue) ==
    {i \in LabeledItems(issue) :
        /\ issue.timelineItems[i].label # NullNode
        /\ issue.timelineItems[i].label.name = <<"stale">>}

\* the fetched issue without its label applications
WithoutLabeledItems(issue) ==
    [issue EXCEPT !.timelineItems =
        Pick(@, (1..Len(@)) \ LabeledItems(issue))]

\* C17: labelEvents holds the times of the applications of the stale label, in
\* feed order and whoever applied it, and nothing else; history, replayed state
\* and verdict are those of the issue without any label application.
C17_LabelsAreNoEvents ==
    Evaluated =>
        LET bare == buildHistoryTimeline(WithoutLabeledItems(rawData))
            times == Pick(rawData.timelineItems, StaleLabeledItems(rawData))
        IN  /\ timeline.labelEvents = [k \in 1..Len(times) |-> times[k].createdAt.iso]
            /\ timeline.history = bare.history
            /\ timeline.lastBotAlertTime = bare.lastBotAlertTime
            /\ bare.labelEvents = <<>>
            /\ state = replayHistoryToFindState(bare.history, maintainers,
                                                 result.issue_author)
            /\ \A i \in 1..Len(timeline.history) :
                  timeline.history[i].type \in
                      {"created", "commented", "edited_description", "renamed_title",
                       "reopened"}

\* C17 witness: the bot applied the stale label and, later, a person another
\* label: one label time, and the last activity is still the creation
C17_Witness ==
    /\ Evaluated
    /\ Len(rawData.timelineItems) = 2
    /\ StaleLabeledItems(rawData) = {1}
    /\ LabeledItems(rawData) = {1, 2}
    /\ rawData.timelineItems[1].actor.login = <<"adk-bot">>
    /\ rawData.timelineItems[2].actor.login = <<"bob">>
    /\ rawData.timelineItems[2].createdAt.iso > rawData.createdAt.iso
    /\ Len(timeline.labelEvents) = 1
    /\ result.last_action_type = "created"

\* the n-th call of processSingleIssue enters getCachedMaintainers in this step
CallsGetCachedMaintainers(n) ==
    /\ tasks[n].pc = "runAsync"
    /\ tasks'[n].pc \in {"getCachedMaintainers", "fetchGraphqlData"}

\* C18: a call that starts when the cache is populated, also with the empty
\* list, returns the cached list and issues no request; a call that starts on an
\* unpopulated cache issues one request; a failed fetch leaves the cache as it
\* was and a successful one populates it for good; there are never more requests
\* than callers.
C18_CacheLifeCycle ==
    [][/\ \A n \in IssueNumbers :
             CallsGetCachedMaintainers(n) =>
                 IF maintainersCache # NullArray
                 THEN /\ collaboratorRequests' = collaboratorRequests
                      /\ tasks'[n].pc = "fetchGraphqlData"
                      /\ tasks'[n].maintainers = maintainersCache
                      /\ maintainersCache' = maintainersCache
                 ELSE /\ collaboratorRequests' = collaboratorRequests + 1
                      /\ tasks'[n].pc = "getCachedMaintainers"
       /\ \A n \in IssueNumbers :
             (tasks[n].pc = "getCachedMaintainers" /\ tasks'[n].pc = "runAsync") =>
                 maintainersCache' = maintainersCache
       /\ \A n \in IssueNumbers :
             (tasks[n].pc = "getCachedMaintainers" /\ tasks'[n].pc = "fetchGraphqlData") =>
                 /\ maintainersCache' # NullArray
                 /\ tasks'[n].maintainers = maintainersCache'
       /\ maintainersCache # NullArray => maintainersCache' # NullArray
       /\ collaboratorRequests' <= Cardinality({n \in IssueNumbers : tasks'[n].started > 0})
      ]_vars

\* C18 witness: the first fetch failed, the fetch of the next issue gave the
\* empty list, and the call of the third issue got the empty list from the
\* cache without a request
C18_Witness ==
    /\ main.CONCURRENCY_LIMIT = 1
    /\ tasks[1].failure = "error verdict"
    /\ collaboratorRequests = 2
    /\ maintainersCache = <<>>
    /\ tasks[3].pc = "fetchGraphqlData"
    /\ ~tasks[3].fetched
    /\ tasks[3].maintainers = <<>>

\* the chunks a list of totalCount issues is cut into
ChunkCount(totalCount, limit) == (totalCount + limit - 1) \div limit

\* C19: main ends; by then processSingleIssue was started exactly once for every
\* listed issue and for no other, and processedCount is the length of the list.
\* Never more than CONCURRENCY_LIMIT calls are in flight, and only calls of the
\* current chunk: every issue before it has returned, none after it has started.
\* A chunk but the first starts after one pause more, and no pause follows the
\* last chunk.
C19_BatchDriver ==
    /\ [](Cardinality(InFlight) <= main.CONCURRENCY_LIMIT)
    /\ [](InFlight \subseteq InChunk(main.chunk))
    /\ [](\A n \in IssueNumbers : tasks[n].started <= 1)
    /\ [](\A n \in Listed :
             /\ n <= main.i => tasks[n].pc = "finished"
             /\ n > main.i + main.CONCURRENCY_LIMIT => tasks[n].pc = "idle")
    /\ [](main.pc = "Promise.all" =>
             /\ main.slept = main.i \div main.CONCURRENCY_LIMIT
             /\ main.processedCount = main.i
             /\ Len(main.chunk) >= 1)
    /\ [](main.pc = "sleep" => main.i + main.CONCURRENCY_LIMIT < Len(main.allIssues))
    /\ [](main.pc = "done" =>
             /\ \A n \in IssueNumbers :
                   tasks[n].started = (IF n \in Listed THEN 1 ELSE 0)
             /\ \A n \in Listed : tasks[n].pc = "finished"
             /\ main.processedCount = Len(main.allIssues)
             /\ main.slept = (IF main.allIssues = <<>> THEN 0
                              ELSE ChunkCount(Len(main.allIssues),
                                              main.CONCURRENCY_LIMIT) - 1))
    /\ <>(main.pc = "done")

\* C19 witness: three issues with CONCURRENCY_LIMIT 2 were processed in two
\* chunks with one pause
C19_Witness ==
    /\ main.pc = "done"
    /\ main.CONCURRENCY_LIMIT = 2
    /\ Len(main.allIssues) = 3
    /\ main.chunk = <<3>>
    /\ main.slept = 1
    /\ main.processedCount = 3
    /\ \A n \in IssueNumbers : tasks[n].started = 1

\* the tool of the n-th call has returned to the agent
ToolReturned(n) == tasks[n].tool # "none" /\ tasks[n].pc = "runAsync" /\ tasks[n].turn = 2

\* what a tool does to the issue after its comment
ChangeOf(tool) == IF tool = "closeAsStale" THEN "closed" ELSE "stale"

\* C20: a tool sends its comment first and its second request (close the issue,
\* add the stale label) only once the comment is posted; a failed comment ends
\* the tool with an error value and nothing sent after it; a failed second
\* request ends it with an error value, the comment posted and the issue
\* unchanged; success means both took effect; the tool always returns a value.
C20_CommentBeforeChange ==
    \A n \in IssueNumbers :
        tasks[n].tool # "none" =>
            LET t == tasks[n]
                second == IF t.tool = "closeAsStale"
                          THEN "PATCH /issues/{item_number}"
                          ELSE "POST /issues/{item_number}/labels"
            IN  /\ t.sent \in {<<"POST /issues/{item_number}/comments">>,
                                <<"POST /issues/{item_number}/comments", second>>}
                /\ Len(t.sent) = 2 => "comment" \in t.posted
                /\ ChangeOf(t.tool) \in t.posted => "comment" \in t.posted
                /\ ToolReturned(n) =>
                      /\ t.toolResult # NullNode
                      /\ t.toolResult.status \in {"success", "error"}
                      /\ t.toolResult.status = "success" <=>
                            t.posted = {"comment", ChangeOf(t.tool)}
                      /\ "comment" \notin t.posted =>
                            /\ Len(t.sent) = 1
                            /\ t.posted = {}
                            /\ t.toolResult.status = "error"
                      /\ t.toolResult.status = "error" =>
                            /\ ChangeOf(t.tool) \notin t.posted
                            /\ DOMAIN t.toolResult = {"status", "message"}
                            /\ t.toolResult.message[1] =
                                  (IF t.tool = "closeAsStale"
                                   THEN "Error closing issue: "
                                   ELSE "Error marking issue as stale: ")

\* C20 witness: closeAsStale posted its comment, the close request failed: an
\* error value, the comment posted, the issue open
C20_Witness ==
    \E n \in IssueNumbers :
        /\ ToolReturned(n)
        /\ tasks[n].tool = "closeAsStale"
        /\ tasks[n].sent = <<"POST /issues/{item_number}/comments",
                             "PATCH /issues/{item_number}">>
        /\ tasks[n].posted = {"comment"}
        /\ tasks[n].toolResult.status = "error"

\* the numbers of the items of a page that have no pull_request field, in order
IssuesOfPage(items) ==
    LET kept == Pick(items, {k \in 1..Len(items) : ~items[k].pull_request})
    IN  [k \in 1..Len(kept) |-> kept[k].number]

\* the numbers of the issues of the first k pages received
RECURSIVE IssuesOfPages(_, _)
IssuesOfPages(received, k) ==
    IF k = 0 THEN <<>>
    ELSE IssuesOfPages(received, k - 1) \o IssuesOfPage(received[k].items)

\* the paging of getOldOpenIssueNumbers: pages 1, 2, ... are asked for one after
\* the other, each after a full page; the first page that is empty, short or
\* failed ends the call, which returns the issues of the pages received
PagingAsClaimed ==
    search.pc \in {"getRequest", "returned"} =>
        LET done == search.pc = "returned"
            n == Len(search.received)
        IN  /\ search.asked = [k \in 1..Len(search.asked) |-> k]
            /\ Len(search.asked) = (IF done THEN n ELSE n + 1)
            /\ \A k \in 1..(IF done THEN n - 1 ELSE n) :
                  /\ search.received[k].ok
                  /\ Len(search.received[k].items) = PER_PAGE
            /\ done =>
                  /\ n >= 1
                  /\ ~search.received[n].ok \/ Len(search.received[n].items) < PER_PAGE
                  /\ search.issueNumbers = IssuesOfPages(search.received, n)
                  /\ ~search.received[1].ok => search.issueNumbers = <<>>

\* C21 as stated: the paging is as claimed, and the call never throws.
C21_PagesUntilShortOrFailedNeverThrows ==
    /\ PagingAsClaimed
    /\ search.pc # "thrown"

\* C21 amended: the paging is as claimed; the call throws exactly when daysOld
\* gives no valid cutoff date, and then before any request.
C21_PagesUntilShortOrFailed ==
    /\ PagingAsClaimed
    /\ search.pc = "thrown" <=> (search.daysOld # NullNode /\ "nan" \in DOMAIN search.daysOld)
    /\ search.pc = "thrown" => (search.asked = <<>> /\ search.received = <<>>)

\* C21 witness: two full pages, with pull requests among the items, then the
\* request for page 3 fails: the issues of the two pages are returned
C21_Witness ==
    /\ search.pc = "returned"
    /\ search.asked = <<1, 2, 3>>
    /\ Len(search.received) = 3
    /\ ~search.received[3].ok
    /\ search.received[1].items[1].pull_request
    /\ ~search.received[1].items[2].pull_request
    /\ search.received[2].items[1].number # search.received[2].items[2].number
    /\ Len(search.issueNumbers) = 2

====
